---------------------------- MODULE Spec2Model ----------------------------
(***************************************************************************)
(* sui-test-validator (crates/sui-test-validator/src/main.rs).             *)
(*                                                                         *)
(* main parses the command line, optionally bootstraps genesis, starts a   *)
(* local cluster and then serves a two-route HTTP faucet: GET / (health)   *)
(* and POST /gas (faucet_request).  The genesis generator, the keystore,   *)
(* the cluster and the faucet client are collaborators outside this file:  *)
(* each of their calls is a step whose outcome (success or failure, the    *)
(* value returned) is chosen nondeterministically.                         *)
(***************************************************************************)
EXTENDS Integers, Sequences, FiniteSets

VARIABLES
    cli,                    \* the command line: supplied flag -> value
    pc,                     \* position of main
    exit,                   \* how the process ended: "running", "Ok", "Err", "Panic", "Usage"
    failure,                \* the startup step that failed, or "none"
    args,                   \* the parsed Args (main.rs:74), NoArgs before parsing
    network_config_exists,  \* does <config dir>/SUI_NETWORK_CONFIG exist on disk
    existed_at_startup,     \* history: network_config_exists when main began
    existing_keys,          \* local of main (main.rs:104), the keystore's addresses
    genesis_config_option,  \* local of main (main.rs:87)
    cluster,                \* what LocalNewCluster::start was given, NoCluster before
    app_state,              \* the shared Arc<AppState> (main.rs:149), NoState before
    printed,                \* lines written to stdout, in order
    calls,                  \* history: the collaborator calls main made, in order
    reqs                    \* the HTTP requests: slot -> request record

vars == <<cli, pc, exit, failure, args, network_config_exists, existed_at_startup,
          existing_keys, genesis_config_option, cluster, app_state, printed,
          calls, reqs>>

-----------------------------------------------------------------------------
(* Bounds of the model. *)

\* Number of flags one command line supplies at most.
MaxFlags == 1
\* Number of HTTP requests of one run (they may all be in flight at once).
MaxReqs == 2
\* Longest transferred_gas_objects list the faucet client returns.
MaxObjs == 1

-----------------------------------------------------------------------------
(* Args: the clap-derived command line (main.rs:26-66). *)

BoolFlags == {"with_indexer", "use_indexer_experimental_methods", "with_persisted"}

U16Flags == {"fullnode_rpc_port", "faucet_port", "indexer_rpc_port", "pg_port"}

ValueFlags == U16Flags \cup {"pg_host", "epoch_duration_ms"}

Flags == ValueFlags \cup BoolFlags

\* The largest u16.
U16Max == 65535

\* Default with the faucet's and the indexer's ports exchanged.
DefaultMutPortsExchanged(f) ==
    CASE f = "fullnode_rpc_port" -> 9000
      [] f = "faucet_port"       -> 9124
      [] f = "indexer_rpc_port"  -> 9123
      [] f = "pg_port"           -> 5432
      [] f = "pg_host"           -> "localhost"
      [] f = "epoch_duration_ms" -> 60000
      [] OTHER                   -> FALSE

\* default_value of each field; a bool flag that is absent is false.
Default(f) ==
    CASE f = "fullnode_rpc_port" -> 9000
      [] f = "faucet_port"       -> 9123
      [] f = "indexer_rpc_port"  -> 9124
      [] f = "pg_port"           -> 5432
      [] f = "pg_host"           -> "localhost"
      [] f = "epoch_duration_ms" -> 60000
      [] OTHER                   -> FALSE

\* Does the value given for flag f parse as the field's type (u16, u64, String)?
\* A value that does not is rejected by clap and the process exits.
ValueParses(f, v) ==
    CASE f \in U16Flags          -> v >= 0 /\ v <= U16Max
      [] f = "epoch_duration_ms" -> v >= 0
      [] OTHER                   -> TRUE

\* The values the model's command lines give a flag: the first is valid and not
\* the default; the second, for a number, is out of the type's range.
InputValue(f, k) ==
    CASE f = "fullnode_rpc_port" -> IF k = 1 THEN 9001 ELSE U16Max + 1
      [] f = "faucet_port"       -> IF k = 1 THEN 9200 ELSE U16Max + 1
      [] f = "indexer_rpc_port"  -> IF k = 1 THEN 9300 ELSE U16Max + 1
      [] f = "pg_port"           -> IF k = 1 THEN 5433 ELSE U16Max + 1
      [] f = "pg_host"           -> "db"
      [] f = "epoch_duration_ms" -> IF k = 1 THEN 1000 ELSE -1
      [] OTHER                   -> TRUE

NumberFlags == U16Flags \cup {"epoch_duration_ms"}

Choices(f) == IF f \in NumberFlags THEN {1, 2} ELSE {1}

\* A command line: the flags supplied, each with its value (TRUE for a bool flag).
CliInputs ==
    UNION { { [f \in D |-> InputValue(f, s[f])] :
                s \in {t \in [D -> {1, 2}] : \A f \in D : t[f] \in Choices(f)} } :
            D \in {S \in SUBSET Flags : Cardinality(S) <= MaxFlags} }

CliParses(c) == \A f \in DOMAIN c : ValueParses(f, c[f])

\* One field of Args: the flag's value when the flag is supplied, else its default.
Field(c, f) == IF f \in DOMAIN c THEN c[f] ELSE Default(f)

\* Args::parse (main.rs:74) of a command line every value of which parses.
Parse(c) ==
    [ fullnode_rpc_port |-> Field(c, "fullnode_rpc_port"),
      faucet_port       |-> Field(c, "faucet_port"),
      indexer_rpc_port  |-> Field(c, "indexer_rpc_port"),
      pg_port           |-> Field(c, "pg_port"),
      pg_host           |-> Field(c, "pg_host"),
      epoch_duration_ms |-> Field(c, "epoch_duration_ms"),
      with_indexer      |-> Field(c, "with_indexer"),
      use_indexer_experimental_methods |-> Field(c, "use_indexer_experimental_methods"),
      with_persisted    |-> Field(c, "with_persisted") ]

\* args before Args::parse has run.
NoArgs == [f \in Flags |-> "unparsed"]

-----------------------------------------------------------------------------
(* Values main builds (main.rs:87-126). *)

None == [tag |-> "None"]

Some(v) == [tag |-> "Some", value |-> v]

\* GenesisConfigFor that drops the keystore's addresses.
GenesisConfigForMutNoAddresses(keys) == [for_local_testing_with_addresses |-> <<>>]

\* GenesisConfig::for_local_testing_with_addresses(existing_keys) (main.rs:105-107).
GenesisConfigFor(keys) == [for_local_testing_with_addresses |-> keys]

\* The address lists FileBasedKeystore::new(..)?.addresses() can yield.
KeystoreContents == {<<>>, <<"0xk1">>}

\* format!("127.0.0.1:{}", port) (main.rs:115-116).
Loopback(port) == <<"127.0.0.1", ":", port>>

\* format!("postgres://postgres@{pg_host}:{pg_port}/sui_indexer") (main.rs:117-119).
PgAddress(host, port) == <<"postgres://postgres@", host, ":", port, "/sui_indexer">>

\* b.then_some(v) (main.rs:116-117).
ThenSome(b, v) == IF b THEN Some(v) ELSE None

\* ClusterTestOpt whose pg_address does not look at with_indexer.
ClusterTestOptMutPgAlways(a) ==
    [ env               |-> "NewLocal",
      fullnode_address  |-> Some(Loopback(a.fullnode_rpc_port)),
      indexer_address   |-> ThenSome(a.with_indexer, Loopback(a.indexer_rpc_port)),
      pg_address        |-> Some(PgAddress(a.pg_host, a.pg_port)),
      faucet_address    |-> None,
      epoch_duration_ms |-> Some(a.epoch_duration_ms),
      use_indexer_experimental_methods |-> a.use_indexer_experimental_methods ]

\* The ClusterTestOpt handed to LocalNewCluster::start (main.rs:113-123).
ClusterTestOpt(a) ==
    [ env               |-> "NewLocal",
      fullnode_address  |-> Some(Loopback(a.fullnode_rpc_port)),
      indexer_address   |-> ThenSome(a.with_indexer, Loopback(a.indexer_rpc_port)),
      pg_address        |-> ThenSome(a.with_indexer, PgAddress(a.pg_host, a.pg_port)),
      faucet_address    |-> None,
      epoch_duration_ms |-> Some(a.epoch_duration_ms),
      use_indexer_experimental_methods |-> a.use_indexer_experimental_methods ]

NoCluster == [called |-> FALSE, started |-> FALSE]

\* The lines main prints once the cluster runs (main.rs:128-135).
UrlLines(a) ==
    <<"Fullnode RPC URL">> \o (IF a.with_indexer THEN <<"Indexer RPC URL">> ELSE <<>>)

\* A `?` that drops the error and goes on.
QuestionMutIgnored(ok, next) == [pc |-> next, exit |-> "running"]

\* The `?` of main and start_faucet: on Err the function returns that error at
\* once, on Ok it goes on to `next`.
Question(ok, next) ==
    IF ok THEN [pc |-> next, exit |-> "running"]
          ELSE [pc |-> "failed", exit |-> "Err"]

\* An exists() check that is not consulted: genesis runs every time.
AfterExistsCheckMutAlwaysGenesis(exists) == "genesis"

\* if !cluster_config_network_config.exists() { genesis } (main.rs:90): where
\* main goes after the check.
AfterExistsCheck(exists) == IF exists THEN "keystore" ELSE "genesis"

\* The startup step that failed last, or "none".
Failed(ok, step) == IF ok THEN failure ELSE step

-----------------------------------------------------------------------------
(* The HTTP surface (main.rs:142-197). *)

\* StatusCode::OK, the status of a handler that returns a &'static str.
OK == 200
\* StatusCode::CREATED
CREATED == 201
\* StatusCode::INTERNAL_SERVER_ERROR
INTERNAL_SERVER_ERROR == 500

Recipients == {"0xa", "0xb"}

\* The transfer lists the faucet client can return.
GasObjectLists == UNION { [1..n -> {"coin"}] : n \in 0..MaxObjs }

\* FaucetResponse: what FaucetClient::request_sui_coins returns.
Results == [transferred_gas_objects : GasObjectLists, error : {"None", "Some"}]

\* AppState { faucet } (main.rs:142-149).
AppState(faucet) == [faucet |-> faucet]

NoState == [faucet |-> "none"]

\* The handle FaucetClientFactory::new_from_cluster returns (main.rs:147).
FaucetHandle == "faucet_client"

\* The routes of the Router (main.rs:156-158).
Routes == {[method |-> "GET", path |-> "/"], [method |-> "POST", path |-> "/gas"]}

Route(method, path) ==
    CASE method = "GET" /\ path = "/"     -> "health"
      [] method = "POST" /\ path = "/gas" -> "faucet_request"
      [] OTHER                            -> "none"

\* FaucetRequest::FixedAmountRequest(FixedAmountRequest { recipient }), the one
\* variant of the POST /gas payload; GET / carries none.
FixedAmountRequest(recipient) == [FixedAmountRequest |-> [recipient |-> recipient]]

NoPayload == [FixedAmountRequest |-> [recipient |-> "-"]]

\* Json(result): the response body that serialises result.
Json(result) == [content_type |-> "application/json", text |-> "", json |-> <<result>>]

\* A plain-text body.
Text(t) == [content_type |-> "text/plain", text |-> t, json |-> <<>>]

NoResponse == [status |-> 0, body |-> Text("")]

\* A health that reports on the faucet: unavailable while a coin request waits.
healthMutChecksFaucet ==
    IF \E q \in DOMAIN reqs : reqs[q].st = "awaiting"
    THEN [status |-> 503, body |-> Text("BUSY")]
    ELSE [status |-> OK, body |-> Text("OK")]

\* health (main.rs:178-180).
health == [status |-> OK, body |-> Text("OK")]

\* A tail of faucet_request that wants more than one transferred object.
FaucetResponseOfMutOffByOne(result) ==
    IF Len(result.transferred_gas_objects) > 1
    THEN [status |-> CREATED, body |-> Json(result)]
    ELSE [status |-> INTERNAL_SERVER_ERROR, body |-> Json(result)]

\* The tail of faucet_request (main.rs:192-196).
FaucetResponseOf(result) ==
    IF result.transferred_gas_objects # <<>>
    THEN [status |-> CREATED, body |-> Json(result)]
    ELSE [status |-> INTERNAL_SERVER_ERROR, body |-> Json(result)]

IdleReq ==
    [ st        |-> "idle",
      method    |-> "-",
      path      |-> "-",
      payload   |-> NoPayload,
      requested |-> <<>>,     \* history: recipients of this request's request_sui_coins calls
      returned  |-> <<>>,     \* history: results the faucet client returned to this request
      response  |-> NoResponse ]

\* A faucet_request that asks for a fixed recipient, not the payload's.
RequestSuiCoinsMutFixedRecipient(payload) == <<"0xa">>

\* The request_sui_coins calls faucet_request makes for a payload, each with the
\* recipient it passes: one, for the payload's recipient (main.rs:186-190).
RequestSuiCoins(payload) == <<payload.FixedAmountRequest.recipient>>

\* A faucet_request that keeps the result in a slot all handlers share: it sees
\* the result of a request answered before it.
AwaitedResultMutShared(r, res) ==
    IF \E q \in DOMAIN reqs : q # r /\ reqs[q].returned # <<>>
    THEN LET q == CHOOSE q \in DOMAIN reqs : q # r /\ reqs[q].returned # <<>>
         IN  reqs[q].returned[1]
    ELSE res

\* The value faucet_request binds to `result`: what the awaited
\* request_sui_coins call of this very request returned (main.rs:186-190).
AwaitedResult(r, res) == res

-----------------------------------------------------------------------------
(* The state after construction: the process has started, nothing has run. *)

Init ==
    /\ cli \in CliInputs
    /\ pc = "parse"
    /\ exit = "running"
    /\ failure = "none"
    /\ args = NoArgs
    /\ network_config_exists \in BOOLEAN
    /\ existed_at_startup = network_config_exists
    /\ existing_keys = <<>>
    /\ genesis_config_option = None
    /\ cluster = NoCluster
    /\ app_state = NoState
    /\ printed = <<>>
    /\ calls = <<>>
    /\ reqs = [r \in 1..MaxReqs |-> IdleReq]

\* What no startup step of main changes.
env == <<cli, existed_at_startup, reqs>>

-----------------------------------------------------------------------------
(* main (main.rs:68-140). *)

\* let args = Args::parse() (main.rs:74-85), after the telemetry set-up of
\* main.rs:70-72, which takes no input and leaves no state main reads.  clap
\* ends the process with a usage error when a value does not parse.
ParseArgs ==
    /\ pc = "parse"
    /\ calls' = Append(calls, "Args::parse")
    /\ \/ /\ CliParses(cli)
          /\ args' = Parse(cli)
          /\ pc' = "genesis_decision"
          /\ UNCHANGED exit
       \/ /\ ~CliParses(cli)
          /\ pc' = "exited"
          /\ exit' = "Usage"
          /\ UNCHANGED args
    /\ UNCHANGED <<failure, network_config_exists, existing_keys,
                   genesis_config_option, cluster, app_state, printed, env>>

\* if with_persisted { config dir lookup; exists()? } else { None } (main.rs:87-90, 108-110).
GenesisDecision ==
    /\ pc = "genesis_decision"
    /\ \/ /\ ~args.with_persisted
          /\ pc' = "cluster_start"
          /\ UNCHANGED <<exit, failure, calls>>
       \/ /\ args.with_persisted
          /\ \E ok \in BOOLEAN :
               LET q == Question(ok, AfterExistsCheck(network_config_exists))
               IN  /\ pc' = q.pc
                   /\ exit' = q.exit
                   /\ failure' = Failed(ok, "config_dir")
                   /\ calls' = calls \o <<"sui_cluster_test_config_dir">>
                                     \o (IF ok THEN <<"exists">> ELSE <<>>)
    /\ UNCHANGED <<args, network_config_exists, existing_keys,
                   genesis_config_option, cluster, app_state, printed, env>>

\* genesis(None, None, Some(sui_cluster_test_config_dir()?), false, None, None).await?
\* (main.rs:91-99).  A genesis that succeeds has written the network config.
Genesis ==
    /\ pc = "genesis"
    /\ \E dir_ok \in BOOLEAN, genesis_ok \in BOOLEAN :
         LET q1 == Question(dir_ok, "call_genesis")
             q2 == Question(genesis_ok, "keystore")
         IN  IF q1.pc # "call_genesis"
             THEN /\ pc' = q1.pc
                  /\ exit' = q1.exit
                  /\ failure' = Failed(dir_ok, "config_dir")
                  /\ calls' = Append(calls, "sui_cluster_test_config_dir")
                  /\ UNCHANGED network_config_exists
             ELSE /\ pc' = q2.pc
                  /\ exit' = q2.exit
                  /\ failure' = Failed(genesis_ok, "genesis")
                  /\ calls' = calls \o <<"sui_cluster_test_config_dir", "genesis">>
                  /\ network_config_exists' = (network_config_exists \/ genesis_ok)
    /\ UNCHANGED <<args, existing_keys, genesis_config_option, cluster,
                   app_state, printed, env>>

\* The keystore read and Some(GenesisConfig::for_local_testing_with_addresses(..))
\* (main.rs:102-107).
ReadKeystore ==
    /\ pc = "keystore"
    /\ \E dir_ok \in BOOLEAN, keystore_ok \in BOOLEAN, keys \in KeystoreContents :
         LET q1 == Question(dir_ok, "read_keystore")
             q2 == Question(keystore_ok, "cluster_start")
         IN  IF q1.pc # "read_keystore"
             THEN /\ pc' = q1.pc
                  /\ exit' = q1.exit
                  /\ failure' = Failed(dir_ok, "config_dir")
                  /\ calls' = Append(calls, "sui_cluster_test_config_dir")
                  /\ UNCHANGED <<existing_keys, genesis_config_option>>
             ELSE /\ pc' = q2.pc
                  /\ exit' = q2.exit
                  /\ failure' = Failed(keystore_ok, "keystore")
                  /\ calls' = calls \o <<"sui_cluster_test_config_dir", "FileBasedKeystore::new">>
                  /\ IF q2.pc = "cluster_start"
                     THEN /\ existing_keys' = keys
                          /\ genesis_config_option' = Some(GenesisConfigFor(keys))
                     ELSE UNCHANGED <<existing_keys, genesis_config_option>>
    /\ UNCHANGED <<args, network_config_exists, cluster, app_state, printed, env>>

\* A cluster start that is tried again when it fails.
ClusterStartMutRetry ==
    /\ pc = "cluster_start"
    /\ \E ok \in BOOLEAN :
         /\ pc' = IF ok THEN "print_urls" ELSE "cluster_start"
         /\ cluster' = [ called |-> TRUE,
                         started |-> ok,
                         options |-> ClusterTestOpt(args),
                         genesis_config |-> genesis_config_option ]
    /\ calls' = Append(calls, "LocalNewCluster::start")
    /\ UNCHANGED <<exit, failure, args, network_config_exists, existing_keys,
                   genesis_config_option, app_state, printed, env>>

\* LocalNewCluster::start(&ClusterTestOpt {..}, genesis_config_option).await?
\* (main.rs:112-126).
ClusterStart ==
    /\ pc = "cluster_start"
    /\ \E ok \in BOOLEAN :
         LET q == Question(ok, "print_urls")
         IN  /\ pc' = q.pc
             /\ exit' = q.exit
             /\ failure' = Failed(ok, "cluster_start")
             /\ cluster' = [ called |-> TRUE,
                             started |-> ok,
                             options |-> ClusterTestOpt(args),
                             genesis_config |-> genesis_config_option ]
    /\ calls' = Append(calls, "LocalNewCluster::start")
    /\ UNCHANGED <<args, network_config_exists, existing_keys,
                   genesis_config_option, app_state, printed, env>>

\* The two println! of main (main.rs:128-135).
PrintUrls ==
    /\ pc = "print_urls"
    /\ printed' = printed \o UrlLines(args)
    /\ pc' = "start_faucet"
    /\ UNCHANGED <<exit, failure, args, network_config_exists, existing_keys,
                   genesis_config_option, cluster, app_state, calls, env>>

-----------------------------------------------------------------------------
(* start_faucet (main.rs:146-175). *)

\* The faucet client, the shared AppState, the router and the "Faucet URL" line
\* (main.rs:147-168).
StartFaucet ==
    /\ pc = "start_faucet"
    /\ app_state' = AppState(FaucetHandle)
    /\ printed' = Append(printed, "Faucet URL")
    /\ calls' = Append(calls, "FaucetClientFactory::new_from_cluster")
    /\ pc' = "bind"
    /\ UNCHANGED <<exit, failure, args, network_config_exists, existing_keys,
                   genesis_config_option, cluster, env>>

\* axum::Server::bind(&addr).serve(..) (main.rs:170-171).  bind hands back a
\* builder, not a Result, so no `?` follows it: a port that cannot be bound
\* ends the process either by a panic inside bind or by the error the awaited
\* server returns at once through the `?` of main.rs:172.
Bind ==
    /\ pc = "bind"
    /\ \E ok \in BOOLEAN, how \in {"Err", "Panic"} :
         /\ pc' = IF ok THEN "serving" ELSE "failed"
         /\ exit' = IF ok THEN exit ELSE how
         /\ failure' = Failed(ok, "bind")
         /\ calls' = calls \o <<"Server::bind">> \o (IF ok THEN <<"serve">> ELSE <<>>)
    /\ UNCHANGED <<args, network_config_exists, existing_keys,
                   genesis_config_option, cluster, app_state, printed, env>>

\* .serve(..).await? and the Ok(()) of start_faucet and of main (main.rs:171-174,
\* 137-139): the server has stopped, with or without an error.
ServeReturns ==
    /\ pc = "serving"
    /\ \E ok \in BOOLEAN :
         LET q == Question(ok, "returned")
         IN  /\ pc' = q.pc
             /\ exit' = IF q.pc = "returned" THEN "Ok" ELSE q.exit
             /\ failure' = Failed(ok, "serve")
    /\ UNCHANGED <<args, network_config_exists, existing_keys,
                   genesis_config_option, cluster, app_state, printed, calls, env>>

-----------------------------------------------------------------------------
(* The requests the server handles while it serves.  Slots fill in order. *)

startup == <<pc, exit, failure, args, network_config_exists, existed_at_startup,
             existing_keys, genesis_config_option, cluster, printed, calls, cli>>

\* A request slot is free for the next request the server accepts.
Free(r) ==
    /\ pc = "serving"
    /\ reqs[r].st = "idle"
    /\ \A q \in 1..(r - 1) : reqs[q].st # "idle"

\* A GET / arrives and the router runs health on it (main.rs:157, 178-180).
Health(r) ==
    /\ Free(r)
    /\ \E rt \in Routes :
         /\ Route(rt.method, rt.path) = "health"
         /\ reqs' = [reqs EXCEPT ![r] =
                       [@ EXCEPT !.st = "responded",
                                 !.method = rt.method,
                                 !.path = rt.path,
                                 !.response = health]]
    /\ UNCHANGED <<startup, app_state>>

\* A POST /gas arrives and the router runs faucet_request on it up to its await:
\* the payload is matched and state.faucet.request_sui_coins(recipient) is
\* called (main.rs:158, 182-188).
FaucetRequestCall(r) ==
    /\ Free(r)
    /\ \E rt \in Routes, rcp \in Recipients :
         /\ Route(rt.method, rt.path) = "faucet_request"
         /\ reqs' = [reqs EXCEPT ![r] =
                       [@ EXCEPT !.st = "awaiting",
                                 !.method = rt.method,
                                 !.path = rt.path,
                                 !.payload = FixedAmountRequest(rcp),
                                 !.requested = RequestSuiCoins(FixedAmountRequest(rcp))]]
    /\ UNCHANGED <<startup, app_state>>

\* The faucet client returns and faucet_request runs to its end (main.rs:188-196).
FaucetRequestReturn(r) ==
    /\ pc = "serving"
    /\ reqs[r].st = "awaiting"
    /\ \E res \in Results :
         LET result == AwaitedResult(r, res)
         IN  reqs' = [reqs EXCEPT ![r] =
                        [@ EXCEPT !.st = "responded",
                                  !.returned = Append(@, res),
                                  !.response = FaucetResponseOf(result)]]
    /\ UNCHANGED <<startup, app_state>>

-----------------------------------------------------------------------------

Next ==
    \/ ParseArgs
    \/ GenesisDecision
    \/ Genesis
    \/ ReadKeystore
    \/ ClusterStart
    \/ PrintUrls
    \/ StartFaucet
    \/ Bind
    \/ ServeReturns
    \/ \E r \in 1..MaxReqs : Health(r)
    \/ \E r \in 1..MaxReqs : FaucetRequestCall(r)
    \/ \E r \in 1..MaxReqs : FaucetRequestReturn(r)

Spec == Init /\ [][Next]_vars

-----------------------------------------------------------------------------
(* Properties. *)

\* How often main has called x.
Count(x) == Cardinality({i \in DOMAIN calls : calls[i] = x})

\* Every call of x comes before every call of y.
Before(x, y) ==
    \A j \in DOMAIN calls :
        calls[j] = y => \A i \in DOMAIN calls : calls[i] = x => i < j

\* Args have been parsed.
Parsed == pc \notin {"parse", "exited"}

IsGas(r) == reqs[r].method = "POST" /\ reqs[r].path = "/gas"

IsHealth(r) == reqs[r].method = "GET" /\ reqs[r].path = "/"

\* The result the faucet client returned last to request r.
LastReturned(r) == reqs[r].returned[Len(reqs[r].returned)]

\* C1: a POST /gas response has status 201 exactly when the result the faucet
\* client returned for it has a non-empty transferred_gas_objects list and
\* status 500 exactly when that list is empty; the handler produces no other
\* status, whatever the recipient, the result's other fields or the other requests.
C1_StatusIffTransferred ==
    \A r \in 1..MaxReqs :
        (IsGas(r) /\ reqs[r].st = "responded") =>
            /\ reqs[r].response.status \in {201, 500}
            /\ (reqs[r].response.status = 201
                    <=> Len(LastReturned(r).transferred_gas_objects) > 0)
            /\ (reqs[r].response.status = 500
                    <=> Len(LastReturned(r).transferred_gas_objects) = 0)

\* Two answered coin requests for different recipients, one with a non-empty
\* list and no error field, one with an empty list.
C1_Witness ==
    /\ IsGas(1) /\ reqs[1].st = "responded" /\ reqs[1].response.status = 201
    /\ IsGas(2) /\ reqs[2].st = "responded" /\ reqs[2].response.status = 500
    /\ reqs[1].payload # reqs[2].payload
    /\ LastReturned(1).error = "Some"

\* C2 as stated: in every run with with_persisted set and no network config at
\* startup genesis is invoked exactly once; seen at the end of a run.
C2_Original ==
    (pc \in {"failed", "returned"} /\ args.with_persisted /\ ~existed_at_startup)
        => Count("genesis") = 1

\* C2 (amended): with with_persisted set, genesis is never invoked when the
\* network config existed at startup and never more than once; and when
\* LocalNewCluster::start is called in a run that began without the network
\* config, genesis has been invoked exactly once, before that call, and has
\* succeeded.
C2_GenesisOnceBeforeStart ==
    (Parsed /\ args.with_persisted) =>
        /\ existed_at_startup => Count("genesis") = 0
        /\ Count("genesis") <= 1
        /\ (~existed_at_startup /\ cluster.called) =>
              /\ Count("genesis") = 1
              /\ Before("genesis", "LocalNewCluster::start")
              /\ network_config_exists

\* The cluster start is called after a genesis that found no network config.
C2_Witness ==
    /\ Parsed /\ args.with_persisted /\ ~existed_at_startup
    /\ cluster.called /\ Count("genesis") = 1

\* The collaborator call each startup failure comes from.
FailedCall(step) ==
    CASE step = "config_dir"    -> "sui_cluster_test_config_dir"
      [] step = "genesis"       -> "genesis"
      [] step = "keystore"      -> "FileBasedKeystore::new"
      [] step = "cluster_start" -> "LocalNewCluster::start"
      [] step = "bind"          -> "Server::bind"
      [] OTHER                  -> "serve"

\* C3: once a startup step has failed (config-dir lookup, genesis, keystore
\* read, cluster start, HTTP bind) main has ended without success, the failed
\* call is the last one made, the server never serves and no request is
\* answered; after a config-dir, genesis or keystore failure
\* LocalNewCluster::start has not been called.
C3_StartupFailureIsFatal ==
    failure \in {"config_dir", "genesis", "keystore", "cluster_start", "bind"} =>
        /\ pc = "failed"
        /\ exit \in {"Err", "Panic"}
        /\ calls[Len(calls)] = FailedCall(failure)
        /\ Count("serve") = 0
        /\ \A r \in 1..MaxReqs : reqs[r].st = "idle"
        /\ failure \in {"config_dir", "genesis", "keystore"}
              => Count("LocalNewCluster::start") = 0
        /\ failure # "bind" => app_state = NoState

\* Genesis has run and failed.
C3_Witness ==
    /\ failure = "genesis"
    /\ pc = "failed"
    /\ Count("genesis") = 1

\* The place of each startup step in main's order.
StepRank(c) ==
    CASE c = "Args::parse"                           -> 1
      [] c = "genesis"                               -> 2
      [] c = "LocalNewCluster::start"                -> 3
      [] c = "FaucetClientFactory::new_from_cluster" -> 4
      [] c = "Server::bind"                          -> 5
      [] c = "serve"                                 -> 6
      [] OTHER                                       -> 0

\* C4: the startup steps are taken in the order parse, genesis, cluster start,
\* faucet start, each at most once; the faucet client is obtained and the server
\* serves only after LocalNewCluster::start has succeeded; main returns Ok only
\* once the server has served and stopped.
C4_StartupOrder ==
    /\ LET steps == SelectSeq(calls, LAMBDA c : StepRank(c) > 0)
       IN  \A i \in 1..(Len(steps) - 1) : StepRank(steps[i]) < StepRank(steps[i + 1])
    /\ calls # <<>> => calls[1] = "Args::parse"
    /\ (Count("FaucetClientFactory::new_from_cluster") > 0 \/ pc = "serving")
          => (cluster.called /\ cluster.started)
    /\ (\E r \in 1..MaxReqs : reqs[r].st # "idle") => Count("serve") = 1
    /\ exit = "Ok" => (pc = "returned" /\ Count("serve") = 1)

\* main has returned Ok after a run that went through genesis.
C4_Witness ==
    /\ exit = "Ok"
    /\ Count("genesis") = 1
    /\ reqs[1].st = "responded"

\* C5: every answer to a GET / is status 200 with the body "OK", and health has
\* made no faucet client call for it, whatever the other requests are doing.
C5_HealthAlwaysOk ==
    \A r \in 1..MaxReqs :
        (IsHealth(r) /\ reqs[r].st # "idle") =>
            /\ reqs[r].st = "responded"
            /\ reqs[r].response.status = 200
            /\ reqs[r].response.body.text = "OK"
            /\ reqs[r].response.body.json = <<>>
            /\ reqs[r].requested = <<>>
            /\ reqs[r].returned = <<>>

\* A GET / answered while a coin request is in flight.
C5_Witness ==
    \E r \in 1..MaxReqs :
        /\ IsHealth(r) /\ reqs[r].st = "responded"
        /\ \E q \in 1..MaxReqs : IsGas(q) /\ reqs[q].st = "awaiting"

\* C6: while the server serves, no step changes the shared AppState, a step
\* changes one request only, and the response a POST /gas gets is fixed by the
\* result the faucet client returned to that same request: its status by that
\* result's list, its body that result.
C6_HandlersShareNothing ==
    [][ pc = "serving" =>
          /\ app_state' = app_state
          /\ \A r \in 1..MaxReqs :
                reqs'[r] # reqs[r] =>
                    /\ \A q \in 1..MaxReqs \ {r} : reqs'[q] = reqs[q]
                    /\ (reqs'[r].st = "responded" /\ reqs'[r].method = "POST") =>
                          LET own == reqs'[r].returned[Len(reqs'[r].returned)]
                          IN  /\ reqs'[r].response.body.json = <<own>>
                              /\ reqs'[r].response.status =
                                    IF own.transferred_gas_objects = <<>> THEN 500 ELSE 201
      ]_vars

\* The second coin request has been answered while the first still awaits the
\* faucet client.
C6_Witness ==
    /\ IsGas(1) /\ reqs[1].st = "awaiting"
    /\ IsGas(2) /\ reqs[2].st = "responded"
    /\ app_state = [faucet |-> "faucet_client"]

\* C7: with no flag supplied the parsed Args are the documented defaults; a
\* supplied flag sets its own field and every field whose flag is not supplied
\* keeps its default.
C7_ArgsDefaults ==
    Parsed =>
        LET documented ==
              [ fullnode_rpc_port |-> 9000,
                faucet_port       |-> 9123,
                indexer_rpc_port  |-> 9124,
                pg_port           |-> 5432,
                pg_host           |-> "localhost",
                epoch_duration_ms |-> 60000,
                with_indexer      |-> FALSE,
                use_indexer_experimental_methods |-> FALSE,
                with_persisted    |-> FALSE ]
        IN  /\ DOMAIN args = DOMAIN documented
            /\ \A f \in DOMAIN documented :
                  args[f] = IF f \in DOMAIN cli THEN cli[f] ELSE documented[f]

\* The faucet port is supplied and the other fields are defaults.
C7_Witness ==
    /\ Parsed
    /\ DOMAIN cli = {"faucet_port"}
    /\ args.faucet_port = 9200
    /\ args.indexer_rpc_port = 9124
    /\ ~args.with_persisted

\* C8: a POST /gas makes exactly one request_sui_coins call, for the recipient
\* of its own payload, gets exactly one result, and its response body is that
\* result as JSON, with 201 as with 500.
C8_OneCallBodyIsResult ==
    \A r \in 1..MaxReqs :
        (IsGas(r) /\ reqs[r].st # "idle") =>
            /\ reqs[r].requested = <<reqs[r].payload.FixedAmountRequest.recipient>>
            /\ reqs[r].st = "awaiting" => reqs[r].returned = <<>>
            /\ reqs[r].st = "responded" =>
                  /\ Len(reqs[r].returned) = 1
                  /\ reqs[r].response.body =
                        [ content_type |-> "application/json",
                          text |-> "",
                          json |-> reqs[r].returned ]

\* A coin request answered 500: the empty list was returned once and is the body.
C8_Witness ==
    \E r \in 1..MaxReqs :
        /\ IsGas(r) /\ reqs[r].st = "responded"
        /\ reqs[r].response.status = 500
        /\ reqs[r].returned[1].transferred_gas_objects = <<>>
        /\ Len(reqs[r].requested) = 1

\* C9: the genesis configuration LocalNewCluster::start is given is present
\* exactly when with_persisted is set.  Without the flag genesis is never
\* invoked and the keystore never read.  With it, when the cluster start is
\* called the keystore has been read once, after the network-config check and
\* any genesis and before the start, and the configuration holds the
\* addresses that read returned.
C9_GenesisConfigIffPersisted ==
    Parsed =>
        /\ ~args.with_persisted =>
              /\ Count("genesis") = 0
              /\ Count("FileBasedKeystore::new") = 0
              /\ Count("sui_cluster_test_config_dir") = 0
              /\ genesis_config_option = [tag |-> "None"]
        /\ cluster.called =>
              /\ (cluster.genesis_config.tag = "Some") <=> args.with_persisted
              /\ cluster.genesis_config.tag \in {"Some", "None"}
              /\ args.with_persisted =>
                    /\ Count("FileBasedKeystore::new") = 1
                    /\ Before("exists", "FileBasedKeystore::new")
                    /\ Before("genesis", "FileBasedKeystore::new")
                    /\ Before("FileBasedKeystore::new", "LocalNewCluster::start")
                    /\ cluster.genesis_config.value.for_local_testing_with_addresses
                          = existing_keys

\* The cluster start is given a configuration built from a keystore that holds
\* an address, read after genesis ran.
C9_Witness ==
    /\ Parsed /\ args.with_persisted /\ cluster.called
    /\ existing_keys # <<>>
    /\ Count("genesis") = 1

\* C10: in the options LocalNewCluster::start is given, indexer_address and
\* pg_address are both present when with_indexer is set and both absent when it
\* is not, faucet_address is absent, epoch_duration_ms is the flag's value,
\* fullnode_address is the loopback host with fullnode_rpc_port; the indexer
\* URL line is printed only when with_indexer is set.
C10_ClusterOptions ==
    /\ cluster.called =>
          LET o == cluster.options
          IN  /\ o.indexer_address.tag = (IF args.with_indexer THEN "Some" ELSE "None")
              /\ o.pg_address.tag = (IF args.with_indexer THEN "Some" ELSE "None")
              /\ args.with_indexer =>
                    /\ o.indexer_address.value = <<"127.0.0.1", ":", args.indexer_rpc_port>>
                    /\ o.pg_address.value =
                          <<"postgres://postgres@", args.pg_host, ":", args.pg_port,
                            "/sui_indexer">>
              /\ o.faucet_address = [tag |-> "None"]
              /\ o.epoch_duration_ms = [tag |-> "Some", value |-> args.epoch_duration_ms]
              /\ o.fullnode_address =
                    [tag |-> "Some", value |-> <<"127.0.0.1", ":", args.fullnode_rpc_port>>]
    /\ (\E i \in DOMAIN printed : printed[i] = "Indexer RPC URL") =>
          (Parsed /\ args.with_indexer)
    /\ pc \in {"start_faucet", "bind", "serving", "returned"} =>
          (Parsed /\ (args.with_indexer <=>
                        \E i \in DOMAIN printed : printed[i] = "Indexer RPC URL"))

\* The cluster runs with an indexer and the indexer URL has been printed.
C10_Witness ==
    /\ cluster.called /\ cluster.started
    /\ args.with_indexer
    /\ cluster.options.indexer_address.value = <<"127.0.0.1", ":", 9124>>
    /\ \E i \in DOMAIN printed : printed[i] = "Indexer RPC URL"

=============================================================================
